---- MODULE Spec2Model ----
(***************************************************************************)
(* Model of the implot-rs binding layer: the plot scope protocol           *)
(* (Plot::begin / Plot::build / PlotToken::end / Drop for PlotToken), the  *)
(* style-color, style-variable and colormap stacks of lib.rs, and the      *)
(* native calls each operation issues.  The native library is not part of  *)
(* the repository: every value it returns is an input of the action that   *)
(* calls it, and every call made to it is recorded in nativeLog.           *)
(***************************************************************************)
EXTENDS Integers, Sequences, FiniteSets, TLC

----------------------------------------------------------------------------
(* Bounds of the model *)

MaxBegins == 3
MaxDraws == 2
MaxStyleTokens == 2
MaxCmapPushes == 2
I32Bits == 3
MaxContexts == 3
MaxOverflow == 2

----------------------------------------------------------------------------
(* Program constants *)

NUMBER_OF_AXES == 6
X1 == 0
Y1 == 3
Y2 == 4

Axes == 0..(NUMBER_OF_AXES - 1)

(* Option<T>: None is the empty tuple, Some(x) the one-element tuple *)
None == <<>>
Some(x) == <<x>>
IsSome(o) == o # <<>>
Unwrap(o) == o[1]

Min(a, b) == IF a <= b THEN a ELSE b

(* Machine integers, at a reduced width: c_int / i32 / u32 have I32Bits bits,
   usize has UsizeBits bits *)
I32_MAX == 2^(I32Bits - 1) - 1
I32_MIN == -(2^(I32Bits - 1))
U32_MAX == 2^I32Bits - 1
UsizeBits == I32Bits + 2
USIZE_MAX == 2^UsizeBits - 1

(* `n as i32` of an integer: keeps the low bits, two's complement *)
AsI32(n) ==
    LET m == n % (2^I32Bits)
    IN IF m > I32_MAX THEN m - 2^I32Bits ELSE m

(* `n as usize` of a signed integer: sign-extends, then reinterprets *)
AsUsize(n) == n % (2^UsizeBits)

(* One call into the native library *)
Call(fn, axis, arg) == [fn |-> fn, axis |-> axis, arg |-> arg]

RECURSIVE CountFn(_, _)
CountFn(log, fns) ==
    IF log = <<>> THEN 0
    ELSE (IF Head(log).fn \in fns THEN 1 ELSE 0) + CountFn(Tail(log), fns)

(* the shared ranges (Rc<RefCell<ImPlotRange>>) of the program *)
Ranges == {1, 2}

SetupFns == {"SetupAxis", "SetupAxisScale", "SetupAxisLimitsConstraints",
             "SetupAxisZoomConstraints", "SetupAxisFormat_Str",
             "SetupAxisFormat_PlotFormatter", "SetupAxisLimits",
             "SetupAxisLinks", "SetupAxisTicks", "SetupLegend"}

DrawFns == {"PlotLine", "PlotStairs", "PlotScatter", "PlotBars", "PlotStems",
            "PlotShaded", "PlotText", "PlotHeatmap", "PlotHistogram",
            "PlotPieChart"}

----------------------------------------------------------------------------
(* The plot descriptor (struct Plot) and its builders *)

PlotNew ==
    [axis_enabled |-> [a \in Axes |-> a \in {X1, Y1}],
     labels |-> [a \in Axes |-> None],
     axis_limits |-> [a \in Axes |-> None],
     axis_limits_constraints |-> [a \in Axes |-> None],
     axis_zoom_constraints |-> [a \in Axes |-> None],
     axis_tick_positions |-> [a \in Axes |-> None],
     axis_tick_labels |-> [a \in Axes |-> None],
     axis_scales |-> [a \in Axes |-> 0],
     axis_format |-> [a \in Axes |-> None],
     show_axis_default_ticks |-> [a \in Axes |-> FALSE],
     legend_configuration |-> None,
     axis_flags |-> [a \in Axes |-> 0]]

with_axis(plot, choice) ==
    [plot EXCEPT !.axis_enabled[choice] = TRUE]

(* axis_limits that stores the limits of an axis it leaves disabled *)
axis_limits_not_enabling(plot, min, max, axis_choice, condition) ==
    [plot EXCEPT !.axis_limits[axis_choice] = Some(<<"Single", min, max, condition>>)]

axis_limits(plot, min, max, axis_choice, condition) ==
    [plot EXCEPT !.axis_enabled[axis_choice] = TRUE,
                 !.axis_limits[axis_choice] = Some(<<"Single", min, max, condition>>)]

(* linked_axis_limits that gives way to limits already stored *)
linked_axis_limits_first_wins(plot, limits, axis_choice) ==
    [plot EXCEPT !.axis_enabled[axis_choice] = TRUE,
                 !.axis_limits[axis_choice] =
                     IF IsSome(plot.axis_limits[axis_choice])
                     THEN plot.axis_limits[axis_choice]
                     ELSE Some(<<"Linked", limits>>)]

linked_axis_limits(plot, limits, axis_choice) ==
    [plot EXCEPT !.axis_enabled[axis_choice] = TRUE,
                 !.axis_limits[axis_choice] = Some(<<"Linked", limits>>)]

axis_zoom_constraints(plot, axis, z_min, z_max) ==
    [plot EXCEPT !.axis_zoom_constraints[axis] = Some(<<z_min, z_max>>)]

axis_format(plot, axis, formatter) ==
    [plot EXCEPT !.axis_format[axis] = Some(formatter)]

axis_limits_constraints(plot, axis, v_min, v_max) ==
    [plot EXCEPT !.axis_limits_constraints[axis] = Some(<<v_min, v_max>>)]

axis_ticks(plot, axis_choice, ticks, show_default) ==
    [plot EXCEPT !.axis_enabled[axis_choice] = TRUE,
                 !.axis_tick_positions[axis_choice] = Some(ticks),
                 !.show_axis_default_ticks[axis_choice] = show_default]

with_legend_location(plot, location, flags) ==
    [plot EXCEPT !.legend_configuration = Some(<<location, flags>>)]

----------------------------------------------------------------------------
(* Plot::begin: the native calls it issues *)

(* body of the per-axis loop of begin *)
AxisSetupCalls(plot, axis) ==
    IF ~plot.axis_enabled[axis] THEN <<>>
    ELSE <<Call("SetupAxis", axis, <<plot.labels[axis], plot.axis_flags[axis]>>),
           Call("SetupAxisScale", axis, <<plot.axis_scales[axis]>>)>>
         \o (IF IsSome(plot.axis_limits_constraints[axis])
             THEN <<Call("SetupAxisLimitsConstraints", axis,
                         Unwrap(plot.axis_limits_constraints[axis]))>>
             ELSE <<>>)
         \o (IF IsSome(plot.axis_zoom_constraints[axis])
             THEN <<Call("SetupAxisZoomConstraints", axis,
                         Unwrap(plot.axis_zoom_constraints[axis]))>>
             ELSE <<>>)
         \o (IF IsSome(plot.axis_format[axis])
             THEN (IF Unwrap(plot.axis_format[axis])[1] = "FormatString"
                   THEN <<Call("SetupAxisFormat_Str", axis,
                               <<Unwrap(plot.axis_format[axis])[2]>>)>>
                   ELSE <<Call("SetupAxisFormat_PlotFormatter", axis,
                               <<Unwrap(plot.axis_format[axis])[2]>>)>>)
             ELSE <<>>)

RECURSIVE AxisLoop(_, _)
AxisLoop(plot, axis) ==
    IF axis >= NUMBER_OF_AXES THEN <<>>
    ELSE AxisSetupCalls(plot, axis) \o AxisLoop(plot, axis + 1)

RECURSIVE maybe_set_axis_limits(_, _)
maybe_set_axis_limits(plot, axis_index) ==
    IF axis_index >= NUMBER_OF_AXES THEN <<>>
    ELSE (IF ~IsSome(plot.axis_limits[axis_index]) THEN <<>>
          ELSE IF Unwrap(plot.axis_limits[axis_index])[1] = "Single"
               THEN <<Call("SetupAxisLimits", axis_index,
                           Tail(Unwrap(plot.axis_limits[axis_index])))>>
               ELSE <<Call("SetupAxisLinks", axis_index,
                           Tail(Unwrap(plot.axis_limits[axis_index])))>>)
         \o maybe_set_axis_limits(plot, axis_index + 1)

RECURSIVE maybe_set_tick_labels(_, _)
maybe_set_tick_labels(plot, k) ==
    IF k >= NUMBER_OF_AXES THEN <<>>
    ELSE (IF IsSome(plot.axis_tick_positions[k])
             /\ Unwrap(plot.axis_tick_positions[k]) # <<>>
          THEN <<Call("SetupAxisTicks", k,
                      <<Unwrap(plot.axis_tick_positions[k]),
                        AsI32(Len(Unwrap(plot.axis_tick_positions[k]))),
                        plot.axis_tick_labels[k],
                        plot.show_axis_default_ticks[k]>>)>>
          ELSE <<>>)
         \o maybe_set_tick_labels(plot, k + 1)

IsLinked(plot, axis_index) ==
    /\ IsSome(plot.axis_limits[axis_index])
    /\ Unwrap(plot.axis_limits[axis_index])[1] = "Linked"

(* a loop that keeps every RefMut until it is over *)
RECURSIVE BorrowEventsHeldToEnd(_, _)
BorrowEventsHeldToEnd(plot, axis_index) ==
    IF axis_index >= NUMBER_OF_AXES THEN <<>>
    ELSE IF IsLinked(plot, axis_index)
         THEN <<<<"borrow_mut", Unwrap(plot.axis_limits[axis_index])[2],
                  axis_index>>>>
              \o BorrowEventsHeldToEnd(plot, axis_index + 1)
              \o <<<<"drop", Unwrap(plot.axis_limits[axis_index])[2],
                     axis_index>>>>
         ELSE BorrowEventsHeldToEnd(plot, axis_index + 1)

(* maybe_set_axis_limits: range.borrow_mut() in the Linked arm, and the drop
   of the RefMut at the end of the arm *)
RECURSIVE BorrowEvents(_, _)
BorrowEvents(plot, axis_index) ==
    IF axis_index >= NUMBER_OF_AXES THEN <<>>
    ELSE IF IsLinked(plot, axis_index)
         THEN <<<<"borrow_mut", Unwrap(plot.axis_limits[axis_index])[2],
                  axis_index>>,
                <<"drop", Unwrap(plot.axis_limits[axis_index])[2],
                  axis_index>>>>
              \o BorrowEvents(plot, axis_index + 1)
         ELSE BorrowEvents(plot, axis_index + 1)

(* RefCell: borrow_mut panics when the cell is borrowed. held: the ranges
   borrowed; conflict: the axis at which borrow_mut panics
   (NUMBER_OF_AXES: nowhere) *)
RECURSIVE RunBorrows(_, _)
RunBorrows(events, held) ==
    IF events = <<>> THEN [held |-> held, conflict |-> NUMBER_OF_AXES]
    ELSE IF Head(events)[1] = "borrow_mut"
         THEN IF Head(events)[2] \in held
              THEN [held |-> held, conflict |-> Head(events)[3]]
              ELSE RunBorrows(Tail(events), held \cup {Head(events)[2]})
         ELSE RunBorrows(Tail(events), held \ {Head(events)[2]})

(* the axis at which begin panics with BorrowMutError *)
BeginConflict(plot, should_render, held) ==
    IF should_render THEN RunBorrows(BorrowEvents(plot, 0), held).conflict
    ELSE NUMBER_OF_AXES

BeginPanics(plot, should_render, held) ==
    BeginConflict(plot, should_render, held) < NUMBER_OF_AXES

(* the ranges still borrowed when begin is over *)
BeginLeavesBorrowed(plot, should_render, held) ==
    IF should_render /\ ~BeginPanics(plot, should_render, held)
    THEN RunBorrows(BorrowEvents(plot, 0), held).held
    ELSE held

LegendCalls(plot) ==
    IF IsSome(plot.legend_configuration)
    THEN <<Call("SetupLegend", -1, Unwrap(plot.legend_configuration))>>
    ELSE <<>>

(* the setup part of begin, guarded by should_render; a panic in
   maybe_set_axis_limits ends it *)
BeginSetupCalls(plot, should_render, held) ==
    IF ~should_render THEN <<>>
    ELSE IF BeginPanics(plot, should_render, held)
         THEN AxisLoop(plot, 0)
              \o SelectSeq(maybe_set_axis_limits(plot, 0),
                           LAMBDA c : c.axis < BeginConflict(plot, should_render,
                                                             held))
         ELSE AxisLoop(plot, 0) \o maybe_set_axis_limits(plot, 0)
              \o maybe_set_tick_labels(plot, 0) \o LegendCalls(plot)

(* a begin that configures the plot before it opens it *)
BeginCallsSetupFirst(plot, should_render, held) ==
    BeginSetupCalls(plot, should_render, held) \o <<Call("BeginPlot", -1, <<>>)>>

BeginCalls(plot, should_render, held) ==
    <<Call("BeginPlot", -1, <<>>)>> \o BeginSetupCalls(plot, should_render, held)

(* begin that hands out a token whatever the native call reported *)
BeginAlwaysReturnsToken(should_render) == TRUE

(* begin's result: Some(PlotToken) or None *)
BeginReturnsToken(should_render) == should_render

----------------------------------------------------------------------------
(* PlotToken *)

TokenIds == 1..MaxBegins

NoToken ==
    [context |-> "null", owner |-> "unborn", ends |-> 0, panics |-> 0,
     fate |-> "none"]

(* PlotToken { context: plot_ui.context, .. }: the context of a PlotUi is a
   reference, never null *)
NewPlotToken(owner) ==
    [context |-> "ctx", owner |-> owner, ends |-> 0, panics |-> 0,
     fate |-> "none"]

(* end(&mut self): the token stays with its holder *)
PlotTokenEndByRef(tok) ==
    [tok EXCEPT !.context = "null", !.ends = @ + 1]

(* end(mut self): takes the token by value and nulls its context *)
PlotTokenEnd(tok) ==
    [tok EXCEPT !.context = "null", !.owner = "gone", !.ends = @ + 1]

PlotTokenEndCalls == <<Call("EndPlot", -1, <<>>)>>

(* a drop that does not look at the context *)
DropPanicsIgnoresContext(tok, isPanicking) == ~isPanicking

(* Drop for PlotToken: does the drop raise a panic? *)
DropPanics(tok, isPanicking) ==
    tok.context # "null" /\ ~isPanicking

(* a drop that ends the plot on the native side *)
PlotTokenDropEndsPlot == PlotTokenEndCalls

(* Drop for PlotToken: the native calls it issues (none) *)
PlotTokenDropCalls == <<>>

(* build that lets the token go without end() *)
BuildFinishNoEnd == <<>>

(* build: f(&token); token.end() *)
BuildFinishCalls == PlotTokenEndCalls

----------------------------------------------------------------------------
(* Drawing primitives *)

(* a plot() that takes the count from x alone *)
PlotLineCallsXLen(x_len, y_len) ==
    IF Min(x_len, y_len) = 0 THEN <<>>
    ELSE <<Call("PlotLine", -1, <<AsI32(x_len)>>)>>

PlotLineCalls(x_len, y_len) ==
    IF Min(x_len, y_len) = 0 THEN <<>>
    ELSE <<Call("PlotLine", -1, <<AsI32(Min(x_len, y_len))>>)>>

----------------------------------------------------------------------------
(* State *)

VARIABLES
    tokens,            \* every PlotToken ever returned by begin
    panicking,         \* std::thread::panicking()
    buildPc,           \* position of the Plot::build call in progress
    buildTok,          \* the token that build call holds (0: none)
    buildStats,        \* counts over all build calls
    nativeDepth,       \* native begin-plot scopes open (rendered, not ended)
    beginPlotCalls,    \* native BeginPlot calls issued
    beginPlotRendered, \* ... of which reported "render"
    endPlotCalls,      \* native EndPlot calls issued
    drawOps,           \* plot() operations performed
    drawCalls,         \* native draw calls issued
    drawCallsNoScope,  \* ... of which while no native scope was open
    lastOp,            \* the last public operation and what it returned
    nativeLog,         \* the native calls the last operation issued
    colorTokens, colorStack, colorPushes, colorPops,
    varTokens, varStack, varPushes, varPops,
    cmapDepth, cmapPushes,
    foreignPops,       \* native pops that removed another token's entry
    lastArgs,          \* the inputs of the last drawing or query operation
    lastRet,           \* what that operation returned or wrote
    plotDesc,          \* the Plot descriptor under construction
    builderOps,        \* builder calls made on it
    lastTickCall,      \* per axis, the last tick builder call (None: none)
    lastSet,           \* per axis, the last limits, constraints and format
                       \* builder calls (None: none)
    rangeBorrow,       \* per shared range, who holds its RefCell borrow
    ctxState,          \* per plotting context: "unborn", "live", "destroyed"
    guiInit            \* the host GUI context is initialized

plotVars == <<tokens, buildPc, buildTok, buildStats, nativeDepth,
              beginPlotCalls, beginPlotRendered, endPlotCalls, drawOps,
              drawCalls, drawCallsNoScope>>

stackVars == <<colorTokens, colorStack, colorPushes, colorPops, varTokens,
               varStack, varPushes, varPops, cmapDepth, cmapPushes,
               foreignPops>>

elemVars == <<lastArgs, lastRet>>

builderVars == <<plotDesc, builderOps, lastTickCall, lastSet, rangeBorrow>>

ctxVars == <<ctxState, guiInit>>

newVars == <<elemVars, builderVars, ctxVars>>

vars == <<plotVars, stackVars, newVars, panicking, lastOp, nativeLog>>

(* the inputs of an operation: the lengths of its slices, and the rest *)
Args(lens, opt) == [lens |-> lens, opt |-> opt]

StyleTokenIds == 1..MaxStyleTokens

NoStyleToken ==
    [was_popped |-> FALSE, owner |-> "unborn", pops |-> 0, panics |-> 0,
     fate |-> "none"]

Op(op, tok, flag) == [op |-> op, tok |-> tok, flag |-> flag]

ContextIds == 1..MaxContexts

NothingSet ==
    [limits |-> None, replaced |-> FALSE, lc |-> None, zc |-> None,
     fmt |-> None]

Init ==
    /\ tokens = [t \in TokenIds |-> NoToken]
    /\ panicking = FALSE
    /\ buildPc = "idle"
    /\ buildTok = 0
    /\ buildStats = [begins |-> 0, rendered |-> 0, closures |-> 0,
                     ends |-> 0, aborted |-> 0]
    /\ nativeDepth = 0
    /\ beginPlotCalls = 0
    /\ beginPlotRendered = 0
    /\ endPlotCalls = 0
    /\ drawOps = 0
    /\ drawCalls = 0
    /\ drawCallsNoScope = 0
    /\ lastOp = Op("none", 0, FALSE)
    /\ nativeLog = <<>>
    /\ colorTokens = [t \in StyleTokenIds |-> NoStyleToken]
    /\ colorStack = <<>>
    /\ colorPushes = 0
    /\ colorPops = 0
    /\ varTokens = [t \in StyleTokenIds |-> NoStyleToken]
    /\ varStack = <<>>
    /\ varPushes = 0
    /\ varPops = 0
    /\ cmapDepth = 0
    /\ cmapPushes = 0
    /\ foreignPops = 0
    /\ lastArgs = Args(<<>>, <<>>)
    /\ lastRet = <<>>
    /\ plotDesc = PlotNew
    /\ builderOps = 0
    /\ lastTickCall = [a \in Axes |-> None]
    /\ lastSet = [a \in Axes |-> NothingSet]
    /\ rangeBorrow = [r \in Ranges |-> "free"]
    /\ ctxState = [c \in ContextIds |-> "unborn"]
    /\ guiInit = FALSE

(* descriptors handed to begin and build *)
Descriptors ==
    {PlotNew,
     with_legend_location(with_axis(PlotNew, Y2), 1, 0),
     axis_ticks(axis_limits_constraints(axis_limits(PlotNew, 0, 10, X1, 1),
                                        X1, 0, 10),
                Y1, <<0, 1, 2>>, FALSE)}

Held(t) == tokens[t].owner \in {"caller", "build"}

----------------------------------------------------------------------------
(* Plot scope operations *)

(* Plot::begin, called by owner ("caller", or "build" from Plot::build) *)
BeginBy(plot, should_render, owner) ==
    LET id == beginPlotCalls + 1
        held == {r \in Ranges : rangeBorrow[r] # "free"}
        panics == BeginPanics(plot, should_render, held)
        some == BeginReturnsToken(should_render) /\ ~panics
        log == BeginCalls(plot, should_render, held)
    IN /\ nativeLog' = log
       /\ beginPlotCalls' = beginPlotCalls + CountFn(log, {"BeginPlot"})
       /\ beginPlotRendered' = beginPlotRendered + (IF should_render THEN 1 ELSE 0)
       /\ nativeDepth' = nativeDepth + (IF should_render THEN 1 ELSE 0)
                         - CountFn(log, {"EndPlot"})
       /\ endPlotCalls' = endPlotCalls + CountFn(log, {"EndPlot"})
       /\ tokens' = IF some THEN [tokens EXCEPT ![id] = NewPlotToken(owner)]
                    ELSE tokens
       /\ panicking' = panics
       /\ rangeBorrow' =
             [r \in Ranges |->
                 IF r \in BeginLeavesBorrowed(plot, should_render, held) \ held
                 THEN "begin" ELSE rangeBorrow[r]]
       /\ lastOp' = Op(IF owner = "build" THEN "build_begin" ELSE "begin",
                       IF some THEN id ELSE 0, should_render)

BeginVars == <<plotDesc, builderOps, lastTickCall, lastSet, elemVars, ctxVars>>

Begin(plot, should_render) ==
    /\ ~panicking
    /\ beginPlotCalls < MaxBegins
    /\ BeginBy(plot, should_render, "caller")
    /\ UNCHANGED <<BeginVars, buildPc, buildTok, buildStats, drawOps, drawCalls,
                   drawCallsNoScope, stackVars>>

(* PlotToken::end followed by the drop of the consumed token *)
EndBy(t, calls) ==
    LET ended == PlotTokenEnd(tokens[t])
        panics == DropPanics(ended, panicking)
    IN /\ nativeLog' = calls
       /\ endPlotCalls' = endPlotCalls + CountFn(calls, {"EndPlot"})
       /\ nativeDepth' = nativeDepth - CountFn(calls, {"EndPlot"})
       /\ tokens' = [tokens EXCEPT ![t] =
                        [ended EXCEPT !.fate = "ended",
                                      !.panics = @ + (IF panics THEN 1 ELSE 0)]]
       /\ panicking' = (panicking \/ panics)

End(t) ==
    /\ ~panicking
    /\ tokens[t].owner = "caller"
    /\ EndBy(t, PlotTokenEndCalls)
    /\ lastOp' = Op("end", t, FALSE)
    /\ UNCHANGED <<newVars, buildPc, buildTok, buildStats, beginPlotCalls,
                   beginPlotRendered, drawOps, drawCalls, drawCallsNoScope,
                   stackVars>>

(* a token held by the caller goes out of scope without end() *)
DropToken(t) ==
    LET panics == DropPanics(tokens[t], panicking)
    IN /\ ~panicking
       /\ tokens[t].owner = "caller"
       /\ tokens' = [tokens EXCEPT ![t] =
                        [@ EXCEPT !.owner = "gone", !.fate = "leaked",
                                  !.panics = @ + (IF panics THEN 1 ELSE 0)]]
       /\ panicking' = (panicking \/ panics)
       /\ nativeLog' = PlotTokenDropCalls
       /\ lastOp' = Op("drop", t, FALSE)
       /\ UNCHANGED <<newVars, buildPc, buildTok, buildStats, nativeDepth,
                      beginPlotCalls, beginPlotRendered, endPlotCalls, drawOps,
                      drawCalls, drawCallsNoScope, stackVars>>

(* unwinding drops a token that is still held while the thread panics *)
Unwind(t) ==
    LET panics == DropPanics(tokens[t], panicking)
    IN /\ panicking
       /\ Held(t)
       /\ tokens' = [tokens EXCEPT ![t] =
                        [@ EXCEPT !.owner = "gone", !.fate = "unwound",
                                  !.panics = @ + (IF panics THEN 1 ELSE 0)]]
       /\ buildPc' = IF t = buildTok THEN "idle" ELSE buildPc
       /\ buildTok' = IF t = buildTok THEN 0 ELSE buildTok
       /\ buildStats' = IF t = buildTok
                        THEN [buildStats EXCEPT !.aborted = @ + 1]
                        ELSE buildStats
       /\ nativeLog' = PlotTokenDropCalls
       /\ lastOp' = Op("unwind", t, panics)
       /\ UNCHANGED <<newVars, panicking, nativeDepth, beginPlotCalls,
                      beginPlotRendered, endPlotCalls, drawOps, drawCalls,
                      drawCallsNoScope, stackVars>>

(* Plot::build up to the call of the closure *)
BuildBegin(plot, should_render) ==
    LET some == /\ BeginReturnsToken(should_render)
                /\ ~BeginPanics(plot, should_render,
                                {r \in Ranges : rangeBorrow[r] # "free"})
    IN /\ ~panicking
       /\ buildPc = "idle"
       /\ beginPlotCalls < MaxBegins
       /\ BeginBy(plot, should_render, "build")
       /\ buildPc' = IF some THEN "closure" ELSE "idle"
       /\ buildTok' = IF some THEN beginPlotCalls + 1 ELSE 0
       /\ buildStats' = [buildStats EXCEPT
                           !.begins = @ + 1,
                           !.rendered = @ + (IF should_render THEN 1 ELSE 0),
                           !.closures = @ + (IF some THEN 1 ELSE 0)]
       /\ UNCHANGED <<BeginVars, drawOps, drawCalls, drawCallsNoScope,
                      stackVars>>

(* the closure returns normally: build calls token.end() *)
BuildClosureReturn ==
    /\ ~panicking
    /\ buildPc = "closure"
    /\ EndBy(buildTok, BuildFinishCalls)
    /\ buildPc' = "idle"
    /\ buildTok' = 0
    /\ buildStats' = [buildStats EXCEPT
                        !.ends = @ + CountFn(BuildFinishCalls, {"EndPlot"})]
    /\ lastOp' = Op("build_return", buildTok, FALSE)
    /\ UNCHANGED <<newVars, beginPlotCalls, beginPlotRendered, drawOps, drawCalls,
                   drawCallsNoScope, stackVars>>

(* the closure panics: the thread starts unwinding *)
BuildClosurePanic ==
    /\ ~panicking
    /\ buildPc = "closure"
    /\ panicking' = TRUE
    /\ nativeLog' = <<>>
    /\ lastOp' = Op("closure_panic", buildTok, FALSE)
    /\ UNCHANGED <<newVars, plotVars, stackVars>>

(* PlotLine::plot *)
PlotLinePlot(x_len, y_len) ==
    LET log == PlotLineCalls(x_len, y_len)
    IN /\ ~panicking
       /\ drawOps < MaxDraws
       /\ drawOps' = drawOps + 1
       /\ nativeLog' = log
       /\ drawCalls' = drawCalls + CountFn(log, DrawFns)
       /\ drawCallsNoScope' = drawCallsNoScope
             + (IF nativeDepth = 0 THEN CountFn(log, DrawFns) ELSE 0)
       /\ lastOp' = Op("plot_line", 0, FALSE)
       /\ lastArgs' = Args(<<x_len, y_len>>, <<>>)
       /\ UNCHANGED <<lastRet, builderVars, ctxVars, tokens, buildPc, buildTok, buildStats, nativeDepth,
                      beginPlotCalls, beginPlotRendered, endPlotCalls,
                      panicking, stackVars>>

MaxLen == 2

Next ==
    \/ \E plot \in Descriptors, r \in BOOLEAN : Begin(plot, r)
    \/ \E t \in TokenIds : End(t)
    \/ \E t \in TokenIds : DropToken(t)
    \/ \E t \in TokenIds : Unwind(t)
    \/ \E plot \in Descriptors, r \in BOOLEAN : BuildBegin(plot, r)
    \/ BuildClosureReturn
    \/ BuildClosurePanic
    \/ \E x \in 0..MaxLen, y \in 0..MaxLen : PlotLinePlot(x, y)

Spec == Init /\ [][Next]_vars

----------------------------------------------------------------------------
(* Style-color, style-variable and colormap stacks (lib.rs) *)

(* CString::new fails on a string with an interior NUL byte; a string is a
   sequence of bytes *)
HasNul(str) == \E i \in 1..Len(str) : str[i] = 0

Names == {<<86>>, <<86, 0, 105>>}

StyleVarKinds == {"Float", "Int", "Vec2"}

(* StyleColorToken { was_popped: false } *)
NewStyleToken ==
    [was_popped |-> FALSE, owner |-> "caller", pops |-> 0, panics |-> 0,
     fate |-> "none"]

(* pop(mut self): the check at entry *)
StyleColorPopPanics(tok) == tok.was_popped

(* pop(&self): the token stays with its holder, unmarked *)
StyleColorTokenPopByRef(tok) ==
    [tok EXCEPT !.pops = @ + 1]

(* pop(mut self): takes the token by value and marks it popped *)
StyleColorTokenPop(tok) ==
    [tok EXCEPT !.was_popped = TRUE, !.owner = "gone", !.pops = @ + 1,
                !.fate = "popped"]

StyleVarPopPanics(tok) == tok.was_popped

StyleVarTokenPop(tok) ==
    [tok EXCEPT !.was_popped = TRUE, !.owner = "gone", !.pops = @ + 1,
                !.fate = "popped"]

(* neither token type implements Drop: letting one go is silent *)
StyleTokenDropPanics(tok, isPanicking) == FALSE

(* a pop with the wrong count: Pop*(2) *)
NativePopTwo(stack) ==
    IF Len(stack) <= 2 THEN <<>> ELSE SubSeq(stack, 1, Len(stack) - 2)

(* the native stack: PopStyleColor(1) / PopStyleVar(1) remove the top entry *)
NativePop(stack) ==
    IF stack = <<>> THEN <<>> ELSE SubSeq(stack, 1, Len(stack) - 1)

(* does the native pop issued for token t remove an entry t did not push? *)
IsForeignPop(stack, t) == stack # <<>> /\ stack[Len(stack)] # t

push_style_color(element) ==
    LET id == colorPushes + 1
        log == <<Call("PushStyleColor", -1, <<element>>)>>
    IN /\ ~panicking
       /\ colorPushes < MaxStyleTokens
       /\ nativeLog' = log
       /\ colorPushes' = colorPushes + CountFn(log, {"PushStyleColor"})
       /\ colorStack' = Append(colorStack, id)
       /\ colorTokens' = [colorTokens EXCEPT ![id] = NewStyleToken]
       /\ lastOp' = Op("push_style_color", id, FALSE)
       /\ UNCHANGED <<newVars, plotVars, panicking, colorPops, varTokens, varStack,
                      varPushes, varPops, cmapDepth, cmapPushes, foreignPops>>

StyleColorPop(t) ==
    LET tok == colorTokens[t]
        panics == StyleColorPopPanics(tok)
        log == IF panics THEN <<>> ELSE <<Call("PopStyleColor", -1, <<1>>)>>
    IN /\ ~panicking
       /\ tok.owner = "caller"
       /\ nativeLog' = log
       /\ panicking' = panics
       /\ colorTokens' = [colorTokens EXCEPT ![t] =
             IF panics THEN [tok EXCEPT !.owner = "gone", !.panics = @ + 1,
                                        !.fate = "unwound"]
             ELSE StyleColorTokenPop(tok)]
       /\ colorPops' = colorPops + CountFn(log, {"PopStyleColor"})
       /\ colorStack' = IF panics THEN colorStack ELSE NativePop(colorStack)
       /\ foreignPops' = foreignPops
             + (IF ~panics /\ IsForeignPop(colorStack, t) THEN 1 ELSE 0)
       /\ lastOp' = Op("style_color_pop", t, tok.was_popped)
       /\ UNCHANGED <<newVars, plotVars, colorPushes, varTokens, varStack, varPushes,
                      varPops, cmapDepth, cmapPushes>>

(* a StyleColorToken goes out of scope without pop() *)
DropStyleColorToken(t) ==
    LET tok == colorTokens[t]
        panics == StyleTokenDropPanics(tok, panicking)
    IN /\ ~panicking
       /\ tok.owner = "caller"
       /\ colorTokens' = [colorTokens EXCEPT ![t] =
             [tok EXCEPT !.owner = "gone", !.fate = "leaked",
                         !.panics = @ + (IF panics THEN 1 ELSE 0)]]
       /\ panicking' = panics
       /\ nativeLog' = <<>>
       /\ lastOp' = Op("drop_style_color", t, FALSE)
       /\ UNCHANGED <<newVars, plotVars, colorStack, colorPushes, colorPops, varTokens,
                      varStack, varPushes, varPops, cmapDepth, cmapPushes,
                      foreignPops>>

(* push_style_var_f32 / push_style_var_i32 / push_style_var_imvec2 *)
push_style_var(kind) ==
    LET id == varPushes + 1
        log == <<Call("PushStyleVar_" \o kind, -1, <<>>)>>
    IN /\ ~panicking
       /\ varPushes < MaxStyleTokens
       /\ nativeLog' = log
       /\ varPushes' = varPushes + Len(log)
       /\ varStack' = Append(varStack, id)
       /\ varTokens' = [varTokens EXCEPT ![id] = NewStyleToken]
       /\ lastOp' = Op("push_style_var", id, FALSE)
       /\ UNCHANGED <<newVars, plotVars, panicking, varPops, colorTokens, colorStack,
                      colorPushes, colorPops, cmapDepth, cmapPushes,
                      foreignPops>>

StyleVarPop(t) ==
    LET tok == varTokens[t]
        panics == StyleVarPopPanics(tok)
        log == IF panics THEN <<>> ELSE <<Call("PopStyleVar", -1, <<1>>)>>
    IN /\ ~panicking
       /\ tok.owner = "caller"
       /\ nativeLog' = log
       /\ panicking' = panics
       /\ varTokens' = [varTokens EXCEPT ![t] =
             IF panics THEN [tok EXCEPT !.owner = "gone", !.panics = @ + 1,
                                        !.fate = "unwound"]
             ELSE StyleVarTokenPop(tok)]
       /\ varPops' = varPops + CountFn(log, {"PopStyleVar"})
       /\ varStack' = IF panics THEN varStack ELSE NativePop(varStack)
       /\ foreignPops' = foreignPops
             + (IF ~panics /\ IsForeignPop(varStack, t) THEN 1 ELSE 0)
       /\ lastOp' = Op("style_var_pop", t, tok.was_popped)
       /\ UNCHANGED <<newVars, plotVars, varPushes, colorTokens, colorStack,
                      colorPushes, colorPops, cmapDepth, cmapPushes>>

(* a StyleVarToken goes out of scope without pop() *)
DropStyleVarToken(t) ==
    LET tok == varTokens[t]
        panics == StyleTokenDropPanics(tok, panicking)
    IN /\ ~panicking
       /\ tok.owner = "caller"
       /\ varTokens' = [varTokens EXCEPT ![t] =
             [tok EXCEPT !.owner = "gone", !.fate = "leaked",
                         !.panics = @ + (IF panics THEN 1 ELSE 0)]]
       /\ panicking' = panics
       /\ nativeLog' = <<>>
       /\ lastOp' = Op("drop_style_var", t, FALSE)
       /\ UNCHANGED <<newVars, plotVars, varStack, varPushes, varPops, colorTokens,
                      colorStack, colorPushes, colorPops, cmapDepth,
                      cmapPushes, foreignPops>>

(* push_colormap_from_preset returns (): no token *)
push_colormap_from_preset(preset) ==
    LET log == <<Call("PushColormap_PlotColormap", -1, <<preset>>)>>
    IN /\ ~panicking
       /\ cmapPushes < MaxCmapPushes
       /\ nativeLog' = log
       /\ cmapPushes' = cmapPushes + Len(log)
       /\ cmapDepth' = cmapDepth + Len(log)
       /\ lastOp' = Op("push_colormap_from_preset", 0, FALSE)
       /\ UNCHANGED <<newVars, plotVars, panicking, colorTokens, colorStack,
                      colorPushes, colorPops, varTokens, varStack, varPushes,
                      varPops, foreignPops>>

(* push_colormap_from_name: CString::new(name).unwrap(), then the push;
   returns () *)
push_colormap_from_name(name) ==
    LET log == IF HasNul(name) THEN <<>>
               ELSE <<Call("PushColormap_Str", -1, name)>>
    IN /\ ~panicking
       /\ cmapPushes < MaxCmapPushes
       /\ nativeLog' = log
       /\ panicking' = HasNul(name)
       /\ cmapPushes' = cmapPushes + Len(log)
       /\ cmapDepth' = cmapDepth + Len(log)
       /\ lastOp' = Op("push_colormap_from_name", 0, HasNul(name))
       /\ UNCHANGED <<newVars, plotVars, colorTokens, colorStack, colorPushes,
                      colorPops, varTokens, varStack, varPushes, varPops,
                      foreignPops>>

Presets == {0, 4}
ColorElements == {0, 1}

NextStack ==
    \/ \E e \in ColorElements : push_style_color(e)
    \/ \E t \in StyleTokenIds : StyleColorPop(t)
    \/ \E t \in StyleTokenIds : DropStyleColorToken(t)
    \/ \E k \in StyleVarKinds : push_style_var(k)
    \/ \E t \in StyleTokenIds : StyleVarPop(t)
    \/ \E t \in StyleTokenIds : DropStyleVarToken(t)
    \/ \E p \in Presets : push_colormap_from_preset(p)
    \/ \E n \in Names : push_colormap_from_name(n)

SpecStack == Init /\ [][NextStack]_vars

----------------------------------------------------------------------------
(* Drawing primitives (plot_elements.rs) *)

MaxVals == 3

(* slice lengths: everything an i32 holds, and a few lengths beyond *)
SliceLens == 0..(I32_MAX + MaxOverflow)

PlotStairsCalls(x_len, y_len) ==
    IF Min(x_len, y_len) = 0 THEN <<>>
    ELSE <<Call("PlotStairs", -1, <<AsI32(Min(x_len, y_len))>>)>>

(* a plot() that looks at x alone before it draws *)
PlotScatterCallsXOnly(x_len, y_len) ==
    IF x_len = 0 THEN <<>>
    ELSE <<Call("PlotScatter", -1, <<AsI32(Min(x_len, y_len))>>)>>

PlotScatterCalls(x_len, y_len) ==
    IF Min(x_len, y_len) = 0 THEN <<>>
    ELSE <<Call("PlotScatter", -1, <<AsI32(Min(x_len, y_len))>>)>>

PlotBarsCalls(axis_positions_len, bar_values_len, horizontal) ==
    LET number_of_points == Min(axis_positions_len, bar_values_len)
    IN IF number_of_points = 0 THEN <<>>
       ELSE <<Call("PlotBars", -1,
                   <<AsI32(number_of_points),
                     IF horizontal THEN "HORIZONTAL" ELSE "NONE">>)>>

PlotStemsCalls(axis_positions_len, stem_values_len, horizontal) ==
    LET number_of_points == Min(axis_positions_len, stem_values_len)
    IN IF number_of_points = 0 THEN <<>>
       ELSE <<Call("PlotStems", -1,
                   <<AsI32(number_of_points),
                     IF horizontal THEN "HORIZONTAL" ELSE "NONE">>)>>

PlotShadedCalls(xs_len, ys1_len, ys2_len) ==
    IF xs_len = 0 \/ ys1_len = 0 \/ ys2_len = 0 THEN <<>>
    ELSE <<Call("PlotShaded", -1,
                <<AsI32(Min(Min(xs_len, ys1_len), ys2_len))>>)>>

(* PlotText::plot: nothing is issued for an empty label *)
PlotTextCalls(label, vertical) ==
    IF label = <<>> THEN <<>>
    ELSE <<Call("PlotText", -1,
                <<label, IF vertical THEN "VERTICAL" ELSE "NONE">>)>>

(* PlotHeatmap::plot: the scan of the closure passed to unwrap_or_else *)
RECURSIVE ScanMinMax(_, _, _, _)
ScanMinMax(values, i, min_seen, max_seen) ==
    IF i > Len(values) THEN <<min_seen, max_seen>>
    ELSE ScanMinMax(values, i + 1,
                    IF values[i] < min_seen THEN values[i] ELSE min_seen,
                    IF values[i] > max_seen THEN values[i] ELSE max_seen)

(* values[0] of an empty slice panics (index out of bounds) *)
PlotHeatmapPanics(values, scale_range) ==
    ~IsSome(scale_range) /\ values = <<>>

(* a scan that starts from 0.0 instead of values[0] *)
PlotHeatmapScaleFromZero(values, scale_range) ==
    IF IsSome(scale_range) THEN Unwrap(scale_range)
    ELSE ScanMinMax(values, 1, 0, 0)

PlotHeatmapScale(values, scale_range) ==
    IF IsSome(scale_range) THEN Unwrap(scale_range)
    ELSE ScanMinMax(values, 1, values[1], values[1])

PlotHeatmapCalls(values, number_of_rows, number_of_cols, scale_range, col_major) ==
    IF PlotHeatmapPanics(values, scale_range) THEN <<>>
    ELSE <<Call("PlotHeatmap", -1,
                <<Len(values), AsI32(number_of_rows), AsI32(number_of_cols),
                  PlotHeatmapScale(values, scale_range)[1],
                  PlotHeatmapScale(values, scale_range)[2],
                  IF col_major THEN "COL_MAJOR" ELSE "NONE">>)>>

(* PlotBinMethod: Sqrt, Sturges, Rice, Scott *)
BinMethods == {-1, -2, -3, -4}

(* the match on PlotBin in PlotHistogram::plot *)
EncodeBins(bins) ==
    IF bins[1] = "Auto" THEN bins[2] ELSE AsI32(bins[2])

PlotHistogramCalls(values_len, bins) ==
    <<Call("PlotHistogram", -1, <<AsI32(values_len), EncodeBins(bins)>>)>>

(* PlotPieChart::plot: CString::new(s).unwrap() for every label *)
PlotPieChartPanics(labels) == \E i \in 1..Len(labels) : HasNul(labels[i])

PlotPieChartCalls(labels, values_len) ==
    IF PlotPieChartPanics(labels) THEN <<>>
    ELSE <<Call("PlotPieChart", -1, <<AsI32(Min(Len(labels), values_len))>>)>>

----------------------------------------------------------------------------
(* Plot::axis_format_callback *)

(* size.checked_sub(1).unwrap() *)
FormatCallbackPanics(size) == size - 1 < I32_MIN

(* the number of bytes of the string that are copied *)
FormatCallbackCount(size, s_len) == Min(AsUsize(size - 1), s_len)

(* bytes written into buff: the copy and the terminator *)
FormatCallbackWritten(size, s_len) == FormatCallbackCount(size, s_len) + 1

----------------------------------------------------------------------------
(* Operations that keep no state between calls: each run applies one of
   them to its inputs *)

ElemStep(op, args, ret, log, panics) ==
    /\ ~panicking
    /\ lastOp.op = "none"
    /\ lastOp' = Op(op, 0, panics)
    /\ lastArgs' = args
    /\ lastRet' = ret
    /\ nativeLog' = log
    /\ panicking' = panics
    /\ UNCHANGED <<plotVars, stackVars, builderVars, ctxVars>>

PlotStairsPlot(x_len, y_len) ==
    ElemStep("plot_stairs", Args(<<x_len, y_len>>, <<>>), <<>>,
             PlotStairsCalls(x_len, y_len), FALSE)

PlotScatterPlot(x_len, y_len) ==
    ElemStep("plot_scatter", Args(<<x_len, y_len>>, <<>>), <<>>,
             PlotScatterCalls(x_len, y_len), FALSE)

PlotBarsPlot(axis_positions_len, bar_values_len, horizontal) ==
    ElemStep("plot_bars",
             Args(<<axis_positions_len, bar_values_len>>, <<horizontal>>), <<>>,
             PlotBarsCalls(axis_positions_len, bar_values_len, horizontal),
             FALSE)

PlotStemsPlot(axis_positions_len, stem_values_len, horizontal) ==
    ElemStep("plot_stems",
             Args(<<axis_positions_len, stem_values_len>>, <<horizontal>>), <<>>,
             PlotStemsCalls(axis_positions_len, stem_values_len, horizontal),
             FALSE)

PlotShadedPlot(xs_len, ys1_len, ys2_len) ==
    ElemStep("plot_shaded", Args(<<xs_len, ys1_len, ys2_len>>, <<>>), <<>>,
             PlotShadedCalls(xs_len, ys1_len, ys2_len), FALSE)

PlotTextPlot(label, vertical) ==
    ElemStep("plot_text", Args(<<>>, <<label, vertical>>), <<>>,
             PlotTextCalls(label, vertical), FALSE)

PlotHeatmapPlot(values, number_of_rows, number_of_cols, scale_range, col_major) ==
    ElemStep("plot_heatmap",
             Args(<<Len(values)>>,
                  <<values, number_of_rows, number_of_cols, scale_range,
                    col_major>>),
             <<>>,
             PlotHeatmapCalls(values, number_of_rows, number_of_cols,
                              scale_range, col_major),
             PlotHeatmapPanics(values, scale_range))

PlotHistogramPlot(values_len, bins) ==
    ElemStep("plot_histogram", Args(<<values_len>>, <<bins>>), <<>>,
             PlotHistogramCalls(values_len, bins), FALSE)

PlotPieChartPlot(labels, values_len) ==
    ElemStep("plot_pie_chart", Args(<<Len(labels), values_len>>, <<labels>>),
             <<>>, PlotPieChartCalls(labels, values_len),
             PlotPieChartPanics(labels))

(* the native library calls the formatter with a buffer of `size` bytes; the
   user callback returns a string of s_len bytes *)
axis_format_callback(size, s_len) ==
    ElemStep("axis_format_callback", Args(<<s_len>>, <<size>>),
             IF FormatCallbackPanics(size) THEN <<>>
             ELSE <<FormatCallbackWritten(size, s_len),
                    AsI32(FormatCallbackWritten(size, s_len))>>,
             <<>>, FormatCallbackPanics(size))

(* is_legend_entry_hovered: the &str is handed over as it is *)
is_legend_entry_hovered(legend_entry) ==
    ElemStep("is_legend_entry_hovered", Args(<<>>, <<legend_entry>>), <<>>,
             <<Call("IsLegendEntryHovered", -1, legend_entry)>>, FALSE)

(* Plot::new: CString::new(title) or panic *)
plot_new(title) ==
    ElemStep("plot_new", Args(<<>>, <<title>>), <<>>, <<>>, HasNul(title))

(* PlotLine::new: CString::new(label) or panic *)
plot_line_new(label) ==
    ElemStep("plot_line_new", Args(<<>>, <<label>>), <<>>, <<>>, HasNul(label))

HeatVals == {-2, 1, 5}

RECURSIVE SeqsUpTo(_, _)
SeqsUpTo(S, n) ==
    IF n = 0 THEN {<<>>}
    ELSE SeqsUpTo(S, n - 1)
         \cup {Append(q, x) : q \in {r \in SeqsUpTo(S, n - 1) : Len(r) = n - 1},
                              x \in S}

HeatmapInputs == SeqsUpTo(HeatVals, MaxVals) \cup {<<1, 5, -2, 3>>}

ScaleRanges == {None, Some(<<0, 1>>)}

BinSpecs == {<<"Auto", m>> : m \in BinMethods}
            \cup {<<"Manual", n>> : n \in 0..U32_MAX}

Strings == Names \cup {<<>>}

PieLabels == {<<>>, <<<<97>>>>, <<<<97>>, <<98>>>>, <<<<97, 0>>>>}

NextElems ==
    \/ \E x \in SliceLens, y \in SliceLens :
          lastOp.op = "none" /\ PlotLinePlot(x, y)
    \/ \E x \in SliceLens, y \in SliceLens : PlotStairsPlot(x, y)
    \/ \E x \in SliceLens, y \in SliceLens : PlotScatterPlot(x, y)
    \/ \E x \in SliceLens, y \in SliceLens, h \in BOOLEAN : PlotBarsPlot(x, y, h)
    \/ \E x \in SliceLens, y \in SliceLens, h \in BOOLEAN : PlotStemsPlot(x, y, h)
    \/ \E x \in SliceLens, y \in SliceLens, z \in SliceLens :
          PlotShadedPlot(x, y, z)
    \/ \E l \in Strings, v \in BOOLEAN : PlotTextPlot(l, v)
    \/ \E values \in HeatmapInputs, r \in 0..2, c \in 0..2,
          sr \in ScaleRanges, cm \in BOOLEAN :
          PlotHeatmapPlot(values, r, c, sr, cm)
    \/ \E n \in SliceLens, bins \in BinSpecs : PlotHistogramPlot(n, bins)
    \/ \E labels \in PieLabels, n \in SliceLens : PlotPieChartPlot(labels, n)
    \/ \E size \in 0..I32_MAX, n \in SliceLens : axis_format_callback(size, n)
    \/ \E e \in Strings : is_legend_entry_hovered(e)
    \/ \E title \in Strings : plot_new(title)
    \/ \E label \in Strings : plot_line_new(label)

SpecElems == Init /\ [][NextElems]_vars

----------------------------------------------------------------------------
(* Builder calls on one descriptor, followed by Plot::begin *)

MaxBuilderOps == 2

(* CString::new(s): the bytes of s and the terminator *)
CStringNew(s) == Append(s, 0)

(* what the native side reads at a char pointer: the bytes before the
   first NUL *)
RECURSIVE CStrRead(_)
CStrRead(c) ==
    IF c = <<>> \/ Head(c) = 0 THEN <<>> ELSE <<Head(c)>> \o CStrRead(Tail(c))

TickPositions(tick_labels) ==
    [i \in 1..Len(tick_labels) |-> tick_labels[i][1]]

axis_ticks_with_labels_panics(tick_labels) ==
    \E i \in 1..Len(tick_labels) : HasNul(tick_labels[i][2])

(* axis_ticks_with_labels that stores the positions and not the labels *)
axis_ticks_labels_dropped(plot, axis_choice, tick_labels, show_default) ==
    [plot EXCEPT !.axis_enabled[axis_choice] = TRUE,
                 !.axis_tick_positions[axis_choice] =
                     Some(TickPositions(tick_labels)),
                 !.show_axis_default_ticks[axis_choice] = show_default]

axis_ticks_with_labels(plot, axis_choice, tick_labels, show_default) ==
    [plot EXCEPT !.axis_enabled[axis_choice] = TRUE,
                 !.axis_tick_positions[axis_choice] =
                     Some(TickPositions(tick_labels)),
                 !.axis_tick_labels[axis_choice] =
                     Some([i \in 1..Len(tick_labels) |->
                              CStringNew(tick_labels[i][2])]),
                 !.show_axis_default_ticks[axis_choice] = show_default]

(* a builder call: it consumes the descriptor and returns the new one, or
   panics *)
BuilderStep(op, axis, plot, tick, set, panics) ==
    /\ ~panicking
    /\ builderOps < MaxBuilderOps
    /\ builderOps' = builderOps + 1
    /\ lastOp' = Op(op, 0, panics)
    /\ nativeLog' = <<>>
    /\ panicking' = panics
    /\ plotDesc' = IF panics THEN plotDesc ELSE plot
    /\ lastTickCall' = IF panics \/ tick = None THEN lastTickCall
                       ELSE [lastTickCall EXCEPT ![axis] = tick]
    /\ lastSet' = IF panics THEN lastSet ELSE [lastSet EXCEPT ![axis] = set]
    /\ UNCHANGED <<plotVars, stackVars, elemVars, ctxVars, rangeBorrow>>

BuilderWithAxis(axis) ==
    BuilderStep("with_axis", axis, with_axis(plotDesc, axis), None,
                lastSet[axis], FALSE)

BuilderAxisTicks(axis, ticks, show_default) ==
    BuilderStep("axis_ticks", axis,
                axis_ticks(plotDesc, axis, ticks, show_default),
                Some(<<"axis_ticks", ticks, show_default>>), lastSet[axis],
                FALSE)

BuilderAxisTicksWithLabels(axis, tick_labels, show_default) ==
    BuilderStep("axis_ticks_with_labels", axis,
                axis_ticks_with_labels(plotDesc, axis, tick_labels,
                                       show_default),
                Some(<<"axis_ticks_with_labels", tick_labels, show_default>>),
                lastSet[axis],
                axis_ticks_with_labels_panics(tick_labels))

BuilderAxisLimits(axis, min, max, condition) ==
    BuilderStep("axis_limits", axis,
                axis_limits(plotDesc, min, max, axis, condition), None,
                [lastSet[axis] EXCEPT
                    !.limits = Some(<<"Single", min, max, condition>>),
                    !.replaced = IsSome(lastSet[axis].limits)],
                FALSE)

BuilderLinkedAxisLimits(axis, limits) ==
    BuilderStep("linked_axis_limits", axis,
                linked_axis_limits(plotDesc, limits, axis), None,
                [lastSet[axis] EXCEPT
                    !.limits = Some(<<"Linked", limits>>),
                    !.replaced = IsSome(lastSet[axis].limits)],
                FALSE)

BuilderAxisLimitsConstraints(axis, v_min, v_max) ==
    BuilderStep("axis_limits_constraints", axis,
                axis_limits_constraints(plotDesc, axis, v_min, v_max), None,
                [lastSet[axis] EXCEPT !.lc = Some(<<v_min, v_max>>)], FALSE)

BuilderAxisZoomConstraints(axis, z_min, z_max) ==
    BuilderStep("axis_zoom_constraints", axis,
                axis_zoom_constraints(plotDesc, axis, z_min, z_max), None,
                [lastSet[axis] EXCEPT !.zc = Some(<<z_min, z_max>>)], FALSE)

BuilderAxisFormat(axis, formatter) ==
    BuilderStep("axis_format", axis,
                axis_format(plotDesc, axis, formatter), None,
                [lastSet[axis] EXCEPT !.fmt = Some(formatter)], FALSE)

(* the caller takes range.borrow_mut() on a shared range: RefCell panics
   if the range is borrowed *)
CallerBorrow(r) ==
    /\ ~panicking
    /\ lastOp' = Op("borrow_mut", r, rangeBorrow[r] = "caller")
    /\ nativeLog' = <<>>
    /\ panicking' = (rangeBorrow[r] # "free")
    /\ rangeBorrow' = IF rangeBorrow[r] = "free"
                      THEN [rangeBorrow EXCEPT ![r] = "caller"]
                      ELSE rangeBorrow
    /\ UNCHANGED <<plotVars, stackVars, elemVars, ctxVars, plotDesc, builderOps,
                   lastTickCall, lastSet>>

(* the caller drops its RefMut *)
CallerRelease(r) ==
    /\ ~panicking
    /\ rangeBorrow[r] = "caller"
    /\ lastOp' = Op("drop_borrow", r, FALSE)
    /\ nativeLog' = <<>>
    /\ rangeBorrow' = [rangeBorrow EXCEPT ![r] = "free"]
    /\ UNCHANGED <<plotVars, stackVars, elemVars, ctxVars, plotDesc, builderOps,
                   lastTickCall, lastSet, panicking>>

(* n pairs (0, "a"), (1, "b"), ... *)
PairsOfLen(n) == [i \in 1..n |-> <<i - 1, <<96 + i>>>>]

TickLens == {0, 1, 3, I32_MAX + 1}

TickLabelInputs ==
    {PairsOfLen(n) : n \in TickLens}
    \cup {<<<<2, <<98>>>>, <<0, <<97>>>>>>, <<<<0, <<97, 0, 98>>>>>>}

TickInputs == {TickPositions(PairsOfLen(n)) : n \in TickLens}

BuilderAxes == {X1, Y2}

(* PlotCond: Always, Once *)
PlotConds == {1, 2}

AxisFormats == {<<"FormatString", <<37, 103, 0>>>>, <<"Callback", 1>>}

NextBuilder ==
    \/ \E axis \in BuilderAxes : BuilderWithAxis(axis)
    \/ \E axis \in BuilderAxes, ticks \in TickInputs, d \in BOOLEAN :
          BuilderAxisTicks(axis, ticks, d)
    \/ \E axis \in BuilderAxes, tl \in TickLabelInputs, d \in BOOLEAN :
          BuilderAxisTicksWithLabels(axis, tl, d)
    \/ \E axis \in BuilderAxes, c \in PlotConds :
          BuilderAxisLimits(axis, 0, 10, c)
    \/ \E axis \in BuilderAxes, limits \in Ranges :
          BuilderLinkedAxisLimits(axis, limits)
    \/ \E axis \in BuilderAxes : BuilderAxisLimitsConstraints(axis, 0, 10)
    \/ \E axis \in BuilderAxes : BuilderAxisZoomConstraints(axis, 1, 5)
    \/ \E axis \in BuilderAxes, f \in AxisFormats : BuilderAxisFormat(axis, f)
    \/ \E r \in BOOLEAN : beginPlotCalls = 0 /\ Begin(plotDesc, r)
    \/ \E r \in Ranges : CallerBorrow(r)
    \/ \E r \in Ranges : CallerRelease(r)

SpecBuilder == Init /\ [][NextBuilder]_vars

----------------------------------------------------------------------------
(* The plotting context (Context::create, its destruction) and the plot
   scopes opened through it *)

LiveContexts == {c \in ContextIds : ctxState[c] = "live"}

(* a create that does not look for an existing context *)
ContextCreateIgnoresExisting(live, gui) == ~gui

(* create(): fails if a context already exists or if the host GUI context
   is not initialized *)
ContextCreateAborts(live, gui) == live # {} \/ ~gui

(* imgui::Context::create() of the host program *)
HostGuiCreate ==
    /\ ~panicking
    /\ ~guiInit
    /\ guiInit' = TRUE
    /\ lastOp' = Op("gui_create", 0, FALSE)
    /\ nativeLog' = <<>>
    /\ UNCHANGED <<plotVars, stackVars, elemVars, builderVars, ctxState,
                   panicking>>

(* Context::create() *)
ContextCreate ==
    LET id == Cardinality({c \in ContextIds : ctxState[c] # "unborn"}) + 1
        aborts == ContextCreateAborts(LiveContexts, guiInit)
    IN /\ ~panicking
       /\ id <= MaxContexts
       /\ ctxState' = IF aborts THEN ctxState
                      ELSE [ctxState EXCEPT ![id] = "live"]
       /\ panicking' = aborts
       /\ lastOp' = Op("context_create", IF aborts THEN 0 ELSE id, aborts)
       /\ nativeLog' = IF aborts THEN <<>>
                       ELSE <<Call("CreateContext", -1, <<>>)>>
       /\ UNCHANGED <<plotVars, stackVars, elemVars, builderVars, guiInit>>

(* destroy(): invalidates the context *)
ContextDestroy(c) ==
    /\ ~panicking
    /\ ctxState[c] = "live"
    /\ ctxState' = [ctxState EXCEPT ![c] = "destroyed"]
    /\ lastOp' = Op("context_destroy", c, FALSE)
    /\ nativeLog' = <<Call("DestroyContext", -1, <<>>)>>
    /\ UNCHANGED <<plotVars, stackVars, elemVars, builderVars, guiInit,
                   panicking>>

NextContext ==
    \/ HostGuiCreate
    \/ ContextCreate
    \/ \E c \in ContextIds : ContextDestroy(c)
    \/ \E r \in BOOLEAN : LiveContexts # {} /\ Begin(PlotNew, r)
    \/ \E t \in TokenIds : End(t)

SpecContext == Init /\ [][NextContext]_vars

----------------------------------------------------------------------------
(* Properties *)

RECURSIVE SumEnds(_)
SumEnds(n) == IF n = 0 THEN 0 ELSE tokens[n].ends + SumEnds(n - 1)

OpenScopes == {t \in TokenIds : Held(t) /\ tokens[t].context = "ctx"}

(* C1: a PlotToken dropped without end() while the thread is not panicking
   raises exactly one panic at the drop; a token on which end() was called
   raises none when it is dropped. *)
PlotTokenDropPanicsOnce ==
    \A t \in TokenIds :
        /\ tokens[t].fate = "leaked" => tokens[t].panics = 1 /\ panicking
        /\ tokens[t].fate = "ended" => tokens[t].panics = 0

PlotTokenDropPanicsOnceWitness ==
    \E t, u \in TokenIds :
        /\ tokens[t].fate = "leaked" /\ tokens[t].ends = 0
        /\ tokens[u].fate = "ended" /\ tokens[u].ends = 1

(* C2: a StyleColorToken or StyleVarToken that goes out of scope without
   pop() while the thread is not panicking raises exactly one panic. *)
StyleTokenDropPanicsOnce ==
    \A t \in StyleTokenIds :
        /\ colorTokens[t].fate = "leaked" => colorTokens[t].panics = 1
        /\ varTokens[t].fate = "leaked" => varTokens[t].panics = 1

(* C3: no native drawing-primitive call is issued while no plot scope is
   open. *)
NoDrawOutsideScope == drawCallsNoScope = 0

(* C4: at most one plot scope (a live PlotToken that has not been ended)
   exists at a time. *)
AtMostOneOpenScope == Cardinality(OpenScopes) <= 1

(* C5: begin returns a token exactly when the native begin-plot call
   reports render; when it returns None it has issued the begin-plot call
   only: no setup call and no end-plot call. *)
BeginTokenIffRender ==
    lastOp.op \in {"begin", "build_begin"} =>
        /\ (lastOp.tok # 0) <=> lastOp.flag
        /\ lastOp.tok # 0 => /\ tokens[lastOp.tok].context = "ctx"
                             /\ Held(lastOp.tok)
                             /\ CountFn(nativeLog, {"SetupAxis"}) >= 2
        /\ lastOp.tok = 0 => /\ CountFn(nativeLog, SetupFns \cup {"EndPlot"}) = 0
                             /\ Len(nativeLog) = 1
                             /\ nativeLog[1].fn = "BeginPlot"

BeginTokenIffRenderWitness ==
    /\ lastOp.op = "begin"
    /\ lastOp.tok = 0
    /\ ~lastOp.flag
    /\ beginPlotRendered >= 1

(* C6: build invokes the closure exactly when begin yields a token and
   issues exactly one end-plot call when the closure returns normally, none
   when begin yields None; over the build calls that returned normally the
   end-plot calls equal the begin-plot calls that reported render. *)
BuildBalanced ==
    /\ buildStats.closures = buildStats.rendered
    /\ buildStats.ends + buildStats.aborted
         + (IF buildPc = "closure" THEN 1 ELSE 0) = buildStats.rendered
    /\ lastOp.op = "build_return" => CountFn(nativeLog, {"EndPlot"}) = 1
    /\ lastOp.op = "build_begin" /\ ~lastOp.flag =>
          buildPc = "idle" /\ CountFn(nativeLog, {"EndPlot"}) = 0
    /\ lastOp.op = "build_begin" /\ lastOp.flag =>
          buildPc = "closure" /\ buildTok = lastOp.tok

BuildBalancedWitness ==
    /\ buildPc = "idle"
    /\ ~panicking
    /\ buildStats.aborted = 0
    /\ buildStats.ends >= 1
    /\ buildStats.begins > buildStats.rendered

(* C7: end issues exactly one native end-plot call and consumes the token:
   no token issues more than one end-plot call and an ended token is no
   longer held by anyone. *)
EndOncePerToken ==
    /\ \A t \in TokenIds :
          /\ tokens[t].ends <= 1
          /\ tokens[t].ends = 1 => ~Held(t) /\ tokens[t].context = "null"
    /\ lastOp.op = "end" => CountFn(nativeLog, {"EndPlot"}) = 1
    /\ endPlotCalls = SumEnds(MaxBegins)

EndOncePerTokenWitness ==
    /\ lastOp.op = "end"
    /\ tokens[lastOp.tok].ends = 1
    /\ \E u \in TokenIds : u # lastOp.tok /\ Held(u)

(* C8: on the style-color stack and on the style-variable stack the native
   pops never exceed the native pushes, no token issues more than one
   native pop, and was_popped is false at every entry to pop. *)
PopsNeverExceedPushes ==
    /\ colorPops <= colorPushes
    /\ varPops <= varPushes
    /\ \A t \in StyleTokenIds :
          /\ colorTokens[t].pops <= 1
          /\ varTokens[t].pops <= 1
          /\ colorTokens[t].pops = 1 => colorTokens[t].owner = "gone"
          /\ varTokens[t].pops = 1 => varTokens[t].owner = "gone"
    /\ lastOp.op \in {"style_color_pop", "style_var_pop"} => ~lastOp.flag

PopsNeverExceedPushesWitness ==
    /\ lastOp.op = "style_var_pop"
    /\ varPops = varPushes
    /\ varPushes >= 2
    /\ colorPops = colorPushes
    /\ colorPushes >= 2

(* C9: tokens are released in reverse order of acquisition: a pop of a token
   that is not the most recently pushed unpopped token of its stack does not
   remove another token's entry from the native stack. *)
PopsAreLifo == foreignPops = 0

(* C10: every push onto the colormap stack returns a stack token. *)
ColormapPushReturnsToken ==
    lastOp.op \in {"push_colormap_from_preset", "push_colormap_from_name"}
        /\ nativeLog # <<>>
      => lastOp.tok # 0

(* C11: each push increases the depth of exactly its own native stack by
   one, each token pop decreases the depth of exactly its own stack by one,
   and the depth of every other stack is unchanged. *)
StackStepDepths ==
    [][/\ lastOp'.op = "push_style_color" =>
            /\ Len(colorStack') = Len(colorStack) + 1
            /\ varStack' = varStack /\ cmapDepth' = cmapDepth
            /\ ~panicking'
       /\ lastOp'.op = "push_style_var" =>
            /\ Len(varStack') = Len(varStack) + 1
            /\ colorStack' = colorStack /\ cmapDepth' = cmapDepth
            /\ ~panicking'
       /\ lastOp'.op = "style_color_pop" =>
            /\ Len(colorStack') = Len(colorStack) - 1
            /\ varStack' = varStack /\ cmapDepth' = cmapDepth
       /\ lastOp'.op = "style_var_pop" =>
            /\ Len(varStack') = Len(varStack) - 1
            /\ colorStack' = colorStack /\ cmapDepth' = cmapDepth]_vars

StackStepDepthsWitness ==
    /\ lastOp.op = "style_color_pop"
    /\ colorPushes = 2
    /\ Len(colorStack) = 1
    /\ Len(varStack) = 1
    /\ cmapDepth = 1

LenOps == {"plot_line", "plot_stairs", "plot_scatter", "plot_bars",
           "plot_stems", "plot_shaded"}

SeqRange(q) == {q[i] : i \in 1..Len(q)}

MinLen(lens) == CHOOSE m \in SeqRange(lens) : \A x \in SeqRange(lens) : m <= x

(* C12 as stated: whenever plot() of the six primitives issues a native
   call, the count passed equals the minimum of the input lengths, for every
   combination of lengths. *)
CountIsMinLength ==
    lastOp.op \in LenOps /\ nativeLog # <<>> =>
        nativeLog[1].arg[1] = MinLen(lastArgs.lens)

(* C12 amended: the count passed never exceeds the shortest input, and it
   equals the minimum of the input lengths whenever that minimum fits a
   signed 32-bit integer. *)
CountIsMinLengthThatFits ==
    lastOp.op \in LenOps /\ nativeLog # <<>> =>
        /\ nativeLog[1].arg[1] <= MinLen(lastArgs.lens)
        /\ MinLen(lastArgs.lens) <= I32_MAX =>
              nativeLog[1].arg[1] = MinLen(lastArgs.lens)

CountIsMinLengthThatFitsWitness ==
    /\ lastOp.op = "plot_line"
    /\ lastArgs.lens = <<5, 3>>
    /\ nativeLog # <<>>
    /\ nativeLog[1].arg[1] = 3

(* C13: plot() of the six primitives issues no native call and returns
   normally when an input has length 0, and issues exactly one native draw
   call when every input is non-empty. *)
ZeroLengthNoCall ==
    lastOp.op \in LenOps =>
        /\ 0 \in SeqRange(lastArgs.lens) => nativeLog = <<>> /\ ~panicking
        /\ 0 \notin SeqRange(lastArgs.lens) =>
              /\ Len(nativeLog) = 1
              /\ nativeLog[1].fn \in DrawFns
              /\ ~panicking

ZeroLengthNoCallWitness ==
    /\ lastOp.op = "plot_scatter"
    /\ lastArgs.lens[1] > 0
    /\ lastArgs.lens[2] = 0
    /\ nativeLog = <<>>

(* C14: PlotPieChart::plot issues no native call when its labels or its
   values have length 0. *)
PieNoCallOnEmpty ==
    lastOp.op = "plot_pie_chart" /\ 0 \in SeqRange(lastArgs.lens) =>
        nativeLog = <<>>

(* C15: PlotHeatmap::plot of a zero-length values buffer does not panic and
   is skipped, with or without an explicit scale range. *)
HeatmapEmptyIsBenign ==
    lastOp.op = "plot_heatmap" /\ lastArgs.lens[1] = 0 =>
        ~panicking /\ nativeLog = <<>>

SetMin(S) == CHOOSE m \in S : \A x \in S : m <= x
SetMax(S) == CHOOSE m \in S : \A x \in S : m >= x

(* C16: without an explicit scale range PlotHeatmap::plot passes the minimum
   and the maximum of the values of a non-empty input; with with_scale(min,
   max) it passes exactly that pair. *)
HeatmapScaleRange ==
    lastOp.op = "plot_heatmap" /\ nativeLog # <<>> =>
        LET values == lastArgs.opt[1]
            scale_range == lastArgs.opt[4]
            passed == <<nativeLog[1].arg[4], nativeLog[1].arg[5]>>
        IN IF IsSome(scale_range) THEN passed = Unwrap(scale_range)
           ELSE passed = <<SetMin(SeqRange(values)), SetMax(SeqRange(values))>>

HeatmapScaleRangeWitness ==
    /\ lastOp.op = "plot_heatmap"
    /\ lastArgs.opt[1] = <<1, 5, -2, 3>>
    /\ lastArgs.opt[4] = None
    /\ nativeLog # <<>>
    /\ nativeLog[1].arg[4] = -2
    /\ nativeLog[1].arg[5] = 5

(* C17: PlotHistogram::plot passes Auto(method) as the negative value of the
   method and Manual(n) as the non-negative count n, for every n. *)
BinEncoding ==
    lastOp.op = "plot_histogram" =>
        LET bins == lastArgs.opt[1]
            passed == nativeLog[1].arg[2]
        IN /\ bins[1] = "Auto" => passed = bins[2] /\ passed < 0
           /\ bins[1] = "Manual" => passed = bins[2] /\ passed >= 0

(* C19: axis_format_callback writes at most `size` bytes into the buffer,
   for every buffer size and every length of the formatted string. *)
CallbackWritesWithinBuffer ==
    lastOp.op = "axis_format_callback" /\ ~panicking =>
        lastRet[1] <= lastArgs.opt[1]

StrFns == {"IsLegendEntryHovered", "PushColormap_Str"}

StrOps == {"is_legend_entry_hovered", "plot_new", "plot_line_new"}

(* C20: a string with an embedded NUL byte is rejected by a panic in the
   call that receives it, and no native call carries such a string. *)
NulStringsRejected ==
    /\ \A i \in 1..Len(nativeLog) :
          nativeLog[i].fn \in StrFns => ~HasNul(nativeLog[i].arg)
    /\ lastOp.op \in StrOps /\ HasNul(lastArgs.opt[1]) => panicking

TickCallsFor(a) ==
    SelectSeq(nativeLog, LAMBDA c : c.fn = "SetupAxisTicks" /\ c.axis = a)

(* the axes whose last tick configuration is axis_ticks_with_labels with at
   least one pair *)
LabelledAxes ==
    {a \in Axes : /\ IsSome(lastTickCall[a])
                  /\ Unwrap(lastTickCall[a])[1] = "axis_ticks_with_labels"
                  /\ Len(Unwrap(lastTickCall[a])[2]) >= 1}

(* one tick-setup call for axis a that hands over the positions and the
   labels of the pairs, in their order, and the flag *)
TickCallCarries(a) ==
    LET tick_labels == Unwrap(lastTickCall[a])[2]
        calls == TickCallsFor(a)
    IN /\ Len(calls) = 1
       /\ calls[1].arg[1] = TickPositions(tick_labels)
       /\ IsSome(calls[1].arg[3])
       /\ Len(Unwrap(calls[1].arg[3])) = Len(tick_labels)
       /\ \A i \in 1..Len(tick_labels) :
             CStrRead(Unwrap(calls[1].arg[3])[i]) = tick_labels[i][2]
       /\ calls[1].arg[4] = Unwrap(lastTickCall[a])[3]

(* C18: for an axis configured with axis_ticks_with_labels with at least one
   pair, a begin that renders issues exactly one tick-setup call for the
   axis, carrying exactly the given positions and labels (all of them: the
   count passed is the number of pairs) and show_default as the
   keep-default flag. *)
TickLabelsPassed ==
    lastOp.op = "begin" /\ lastOp.flag /\ ~panicking =>
        \A a \in LabelledAxes :
            /\ TickCallCarries(a)
            /\ TickCallsFor(a)[1].arg[2] = Len(Unwrap(lastTickCall[a])[2])

(* C18, amended: as above, the count passed being the number of pairs
   whenever that number fits a signed 32-bit integer. *)
TickLabelsPassedThatFit ==
    lastOp.op = "begin" /\ lastOp.flag /\ ~panicking =>
        \A a \in LabelledAxes :
            /\ TickCallCarries(a)
            /\ Len(Unwrap(lastTickCall[a])[2]) <= I32_MAX =>
                   TickCallsFor(a)[1].arg[2] = Len(Unwrap(lastTickCall[a])[2])

TickLabelsPassedThatFitWitness ==
    /\ lastOp.op = "begin" /\ lastOp.flag
    /\ Y2 \in LabelledAxes
    /\ Unwrap(lastTickCall[Y2]) =
           <<"axis_ticks_with_labels", PairsOfLen(3), FALSE>>
    /\ Len(TickCallsFor(Y2)) = 1
    /\ TickCallsFor(Y2)[1].arg =
           <<<<0, 1, 2>>, 3, Some(<<<<97, 0>>, <<98, 0>>, <<99, 0>>>>),
             FALSE>>

BeginRendered == lastOp.op = "begin" /\ lastOp.flag /\ ~panicking

CallsFor(fn, a) ==
    SelectSeq(nativeLog, LAMBDA c : c.fn = fn /\ c.axis = a)

(* C21: for each axis the last of the axis_limits and linked_axis_limits
   calls takes effect: a begin that renders issues exactly one limit-setup
   call for the axis, of the kind and with the value of that last call, and
   none of the other kind; an axis with no such call gets none. *)
LastLimitsCallWins ==
    BeginRendered =>
        \A a \in Axes :
            LET direct == CallsFor("SetupAxisLimits", a)
                linked == CallsFor("SetupAxisLinks", a)
                last == lastSet[a].limits
            IN IF last = None THEN direct = <<>> /\ linked = <<>>
               ELSE IF Unwrap(last)[1] = "Single"
                    THEN /\ Len(direct) = 1
                         /\ direct[1].arg = Tail(Unwrap(last))
                         /\ linked = <<>>
                    ELSE /\ Len(linked) = 1
                         /\ linked[1].arg = Tail(Unwrap(last))
                         /\ direct = <<>>

LastLimitsCallWinsWitness ==
    /\ BeginRendered
    /\ lastSet[Y2].replaced
    /\ lastSet[Y2].limits = Some(<<"Linked", 2>>)
    /\ lastSet[X1].limits = None
    /\ Len(CallsFor("SetupAxisLinks", Y2)) = 1
    /\ CallsFor("SetupAxisLimits", Y2) = <<>>

(* C25: whenever begin passes tick labels for an axis to the native
   tick-setup call, the number of labels passed equals the number of tick
   positions passed. *)
TickLabelCountMatches ==
    BeginRendered =>
        \A i \in 1..Len(nativeLog) :
            nativeLog[i].fn = "SetupAxisTicks" /\ IsSome(nativeLog[i].arg[3])
                => Len(Unwrap(nativeLog[i].arg[3])) = Len(nativeLog[i].arg[1])

FormatCallFor(formatter) ==
    IF formatter[1] = "FormatString" THEN "SetupAxisFormat_Str"
    ELSE "SetupAxisFormat_PlotFormatter"

(* C26: every limits constraint, zoom constraint and value format set on
   the descriptor for an axis is passed to the native library by a begin
   that renders, whatever other builder calls were made for the axis. *)
ConstraintsAlwaysPassed ==
    BeginRendered =>
        \A a \in Axes :
            /\ IsSome(lastSet[a].lc) =>
                  \E i \in 1..Len(nativeLog) :
                      nativeLog[i] = Call("SetupAxisLimitsConstraints", a,
                                          Unwrap(lastSet[a].lc))
            /\ IsSome(lastSet[a].zc) =>
                  \E i \in 1..Len(nativeLog) :
                      nativeLog[i] = Call("SetupAxisZoomConstraints", a,
                                          Unwrap(lastSet[a].zc))
            /\ IsSome(lastSet[a].fmt) =>
                  \E i \in 1..Len(nativeLog) :
                      nativeLog[i] = Call(FormatCallFor(Unwrap(lastSet[a].fmt)),
                                          a, <<Unwrap(lastSet[a].fmt)[2]>>)

PerAxisLateFns == {"SetupAxisLimits", "SetupAxisLinks", "SetupAxisTicks"}

(* C27: X1 and Y1 are always enabled, an axis with stored limits or ticks
   is enabled, and in a begin that renders a limits, links or tick setup
   call is issued for an axis only if the axis is enabled and its
   axis-setup call was issued earlier in the same begin. *)
LimitsAndTicksOnlyForSetUpAxes ==
    /\ plotDesc.axis_enabled[X1] /\ plotDesc.axis_enabled[Y1]
    /\ \A a \in Axes :
          IsSome(plotDesc.axis_limits[a]) \/ IsSome(plotDesc.axis_tick_positions[a])
              => plotDesc.axis_enabled[a]
    /\ BeginRendered =>
          \A i \in 1..Len(nativeLog) :
              nativeLog[i].fn \in PerAxisLateFns =>
                  /\ plotDesc.axis_enabled[nativeLog[i].axis]
                  /\ \E j \in 1..(i - 1) :
                        /\ nativeLog[j].fn = "SetupAxis"
                        /\ nativeLog[j].axis = nativeLog[i].axis

LimitsAndTicksOnlyForSetUpAxesWitness ==
    /\ BeginRendered
    /\ Len(CallsFor("SetupAxisLimits", Y2)) = 1
    /\ Len(CallsFor("SetupAxisTicks", Y2)) = 1
    /\ Len(CallsFor("SetupAxis", Y2)) = 1

SaturatingOps == {"plot_line", "plot_stairs", "plot_scatter", "plot_bars",
                  "plot_stems"}

(* C24: the count passed by PlotLine, PlotStairs, PlotScatter, PlotBars and
   PlotStems is the minimum input length converted with saturation: never
   negative, never larger than the shortest input, and the largest signed
   32-bit value for a minimum above it. *)
CountSaturates ==
    lastOp.op \in SaturatingOps /\ nativeLog # <<>> =>
        /\ nativeLog[1].arg[1] >= 0
        /\ nativeLog[1].arg[1] <= MinLen(lastArgs.lens)
        /\ nativeLog[1].arg[1] = Min(MinLen(lastArgs.lens), I32_MAX)

(* C28: PlotHeatmap::plot issues its native call only with dimensions that
   fit the buffer: rows * columns never exceeds the length of the values
   handed over. *)
HeatmapDimensionsFit ==
    lastOp.op = "plot_heatmap" /\ nativeLog # <<>> =>
        nativeLog[1].arg[2] * nativeLog[1].arg[3] <= nativeLog[1].arg[1]

(* C30: a PlotToken that has not been ended and is dropped while the thread
   is already panicking raises no second panic and issues no native
   end-plot call. *)
UnwindDropIsQuiet ==
    /\ lastOp.op = "unwind" =>
          /\ ~lastOp.flag
          /\ CountFn(nativeLog, {"EndPlot"}) = 0
    /\ \A t \in TokenIds :
          tokens[t].fate = "unwound" =>
              tokens[t].panics = 0 /\ tokens[t].ends = 0

UnwindDropIsQuietWitness ==
    /\ lastOp.op = "unwind"
    /\ tokens[lastOp.tok].fate = "unwound"
    /\ tokens[lastOp.tok].context = "ctx"
    /\ buildStats.aborted = 1
    /\ panicking

LinkedRanges(plot) ==
    {Unwrap(plot.axis_limits[a])[2] : a \in {b \in Axes : IsLinked(plot, b)}}

(* C29: begin takes the mutable borrows of linked ranges one at a time and
   releases each before the next and before returning: it holds no borrow
   when it is over, it panics on a borrow only if the caller itself holds a
   borrow of a linked range (never because axes share a range), and a
   borrow_mut by the caller panics only on a range the caller already
   holds. *)
LinkedBorrowsReleased ==
    /\ \A r \in Ranges : rangeBorrow[r] # "begin"
    /\ lastOp.op = "begin" /\ panicking =>
          \E r \in LinkedRanges(plotDesc) : rangeBorrow[r] = "caller"
    /\ lastOp.op = "borrow_mut" /\ panicking => lastOp.flag

LinkedBorrowsReleasedWitness ==
    /\ lastOp.op = "borrow_mut"
    /\ ~panicking
    /\ nativeDepth = 1
    /\ IsLinked(plotDesc, X1) /\ IsLinked(plotDesc, Y2)
    /\ LinkedRanges(plotDesc) = {lastOp.tok}
    /\ rangeBorrow[lastOp.tok] = "caller"

BeginOps == {"begin", "build_begin"}

(* C23: every setup call is issued by a begin that renders, after its
   native begin-plot call and before begin returns the token: the calls of
   such a begin are BeginPlot followed by setup calls only, and no other
   operation (drawing, end) issues a setup call. *)
SetupCallsInsideBegin ==
    /\ CountFn(nativeLog, SetupFns) > 0 =>
          /\ lastOp.op \in BeginOps /\ lastOp.flag
          /\ nativeLog[1].fn = "BeginPlot"
          /\ \A i \in 2..Len(nativeLog) : nativeLog[i].fn \in SetupFns
    /\ lastOp.op \in BeginOps /\ lastOp.tok # 0 =>
          /\ nativeLog[1].fn = "BeginPlot"
          /\ tokens[lastOp.tok].ends = 0
          /\ Held(lastOp.tok)
    /\ lastOp.op \notin BeginOps => CountFn(nativeLog, SetupFns) = 0

SetupCallsInsideBeginWitness ==
    /\ lastOp.op = "begin"
    /\ lastOp.tok # 0
    /\ CountFn(nativeLog, {"SetupAxisLimits", "SetupAxisLimitsConstraints",
                           "SetupAxisTicks"}) = 3
    /\ nativeLog[Len(nativeLog)].fn = "SetupAxisTicks"

(* C22: at most one plotting context exists at a time: create fails if a
   context already exists, so no sequence of create and destroy operations
   reaches a state with two live contexts. *)
AtMostOneContext ==
    /\ Cardinality(LiveContexts) <= 1
    /\ lastOp.op = "context_create" /\ ~lastOp.flag =>
          LiveContexts = {lastOp.tok}

AtMostOneContextWitness ==
    /\ lastOp.op = "context_create"
    /\ lastOp.flag
    /\ panicking
    /\ Cardinality(LiveContexts) = 1
    /\ \E c \in ContextIds : ctxState[c] = "destroyed"

============================================================================
